---- MODULE Spec2Model ----
(***************************************************************************)
(* Model of stream/udp_rtp.go: the multicast UDP -> HTTP fan-out hub       *)
(* (StreamHub), its control loop, receive loop, priming task, HTTP adapter *)
(* and the process-wide registry (MultiChannelHub).                        *)
(*                                                                         *)
(* Granularity.  Every critical section of the hub lock Mu is one step:    *)
(* the lock is never held across a blocking operation, so a section is     *)
(* atomic for every other task.  What a task does between two sections     *)
(* (channel sends, the lock-free reads of h.Closed) is a step of its own.  *)
(* A Go runtime panic (send on a closed channel, close of a closed         *)
(* channel, write to a nil map, nil pointer dereference) ends the process: *)
(* it is recorded in crash and no step follows it.                         *)
(***************************************************************************)
EXTENDS Integers, Sequences, FiniteSets, TLC

\* ------------------------------------------------------------------ bounds
MaxHubs == 2
MaxClients == 2
MaxFrames == 2
MaxTransfers == 1
\* scaled-down capacities of the program (add- and remove-queue 1024, client
\* queue 4096, ring 8192, every 100th drop)
ChanCap == 1
QueueCap == 1
CacheSize == 2
ResyncEvery == 2
\* the ring buffer on its own: capacities 1..MaxRingSize, up to MaxPushes pushes
MaxRingSize == 3
MaxPushes == 5
\* UpdateInterfaces: a hub of up to MaxAddrs addresses, updated up to MaxUpdates times
MaxAddrs == 2
MaxUpdates == 2

\* ------------------------------------------------------- program constants
StateStopped == 0
StatePlaying == 1
StateError == 2
P_MPGA == 14
P_MPGV == 32
RTP_VERSION == 2
MPEG2_TS_PKT_SIZE_MIN == 188
TsSyncByte == 71
RtpFixedHeader == 12

HubIds == 1..MaxHubs
Clis == 1..MaxClients
NoHub == 0
NoFrame == 0

VARIABLES
  hub,        \* hub[h]: the fields of StreamHub h
  nHubs,      \* hubs 1..nHubs have been built by NewStreamHub
  Hubs,       \* MultiChannelHub.Hubs[key] for the one key modelled (NoHub: absent)
  run,        \* run[h]: position of the control loop of hub h
  rl,         \* rl[h]: position of the receive loop of hub h (readLoop + broadcast)
  cli,        \* cli[c]: position of HTTP request c (GetOrCreateHub, then ServeHTTP)
  ch,         \* ch[c]: the client queue made by request c (buffer, closed flag)
  prime,      \* prime[c]: position of the priming task of queue c (sendInitial)
  hist,       \* hist[c]: every frame ever enqueued into queue c, in order
  primed,     \* primed[c]: ring contents when the control loop inserted queue c
  nFrames,    \* datagrams received so far (frames are numbered 1, 2, ...)
  nTransfers, \* calls of TransferClientsTo so far
  crash       \* "none", or the runtime panic that ended the process

\* rb, pushed: a RingBuffer on its own and the frames pushed into it so far;
\* pkt, out: a datagram and what processRTPPacket made of it
\* socks, upd: the sockets of a hub one by one, each with its receive loop,
\* and the calls of UpdateInterfaces (rl models the loop of the socket bound
\* at construction for as long as UpdateInterfaces is not called)
\* (the hub model leaves them alone)
VARIABLES rb, pushed, pkt, out, socks, upd
pure == <<rb, pushed, pkt, out, socks, upd>>

vars == <<hub, nHubs, Hubs, run, rl, cli, ch, prime, hist, primed, nFrames, nTransfers, crash, pure>>

\* socks[s]: the hub that bound socket s (NoHub: not bound yet), whether it is
\* open, whether it is in h.UdpConns, and its receive loop ("none", "read":
\* blocked in ReadFrom, "done": returned).
SockIds == 1..(MaxAddrs * (MaxUpdates + 1))
NoSock == [hub |-> NoHub, open |-> FALSE, held |-> FALSE, loop |-> "none"]
\* upd: the number of addresses in h.AddrList, the calls made so far and what
\* the last call returned
NoUpdate == [addrs |-> 1, calls |-> 0, ok |-> "none"]

\* ------------------------------------------------------------ RTP payload
\* A datagram: its length and the bytes the code looks at.  It is built from
\* the RTP fields: byte 0 is V(2) P(1) X(1) CC(4), byte 1 is M(1) PT(7); ext
\* is the pair of bytes at offsets 12+4*CC+2 and +3, last the final byte.  For
\* a length of MPEG2_TS_PKT_SIZE_MIN or more these bytes are all distinct.
Byte0(d) == d.V * 64 + d.P * 32 + d.X * 16 + d.CC
Byte1(d) == d.M * 128 + d.PT

\* a slice d[from:to] of the datagram; the datagram itself is d[0:len]
Slice(from, to) == [from |-> from, to |-> to]
Whole(d) == Slice(0, d.len)

NoPacket == [len |-> 0, V |-> 0, P |-> 0, X |-> 0, CC |-> 0, M |-> 0, PT |-> 0,
             ext |-> <<0, 0>>, last |-> 0]
NoOut == Slice(-1, -1)

\* rtpPayloadGet that never looks at the padding bit (mutant)
rtpPayloadGetNoPad(d) ==
  IF d.len < RtpFixedHeader THEN [err |-> TRUE, startOff |-> 0, endOff |-> 0]
  ELSE IF (Byte0(d) \div 64) % 4 # RTP_VERSION THEN [err |-> TRUE, startOff |-> 0, endOff |-> 0]
  ELSE LET cc == Byte0(d) % 16
           s0 == 12 + 4 * cc
           x == (Byte0(d) \div 16) % 2
       IN  IF x = 1 /\ s0 + 4 > d.len THEN [err |-> TRUE, startOff |-> 0, endOff |-> 0]
           ELSE LET startOff == IF x = 1 THEN s0 + 4 + 4 * (d.ext[1] * 256 + d.ext[2]) ELSE s0
                IN  IF startOff > d.len THEN [err |-> TRUE, startOff |-> 0, endOff |-> 0]
                    ELSE [err |-> FALSE, startOff |-> startOff, endOff |-> 0]

\* rtpPayloadGet: offset of the payload and number of padding bytes, or an error
rtpPayloadGet(d) ==
  IF d.len < RtpFixedHeader THEN [err |-> TRUE, startOff |-> 0, endOff |-> 0]
  ELSE IF (Byte0(d) \div 64) % 4 # RTP_VERSION THEN [err |-> TRUE, startOff |-> 0, endOff |-> 0]
  ELSE LET cc == Byte0(d) % 16
           s0 == 12 + 4 * cc
           x == (Byte0(d) \div 16) % 2
           p == (Byte0(d) \div 32) % 2
       IN  IF x = 1 /\ s0 + 4 > d.len THEN [err |-> TRUE, startOff |-> 0, endOff |-> 0]
           ELSE LET startOff == IF x = 1 THEN s0 + 4 + 4 * (d.ext[1] * 256 + d.ext[2]) ELSE s0
                    endOff == IF p = 1 /\ d.len > 0 THEN d.last ELSE 0
                IN  IF startOff + endOff > d.len THEN [err |-> TRUE, startOff |-> 0, endOff |-> 0]
                    ELSE [err |-> FALSE, startOff |-> startOff, endOff |-> endOff]

\* processRTPPacket: the datagram itself, or a copy of its payload
processRTPPacket(d) ==
  IF d.len < MPEG2_TS_PKT_SIZE_MIN THEN Whole(d)
  ELSE IF Byte0(d) = TsSyncByte THEN Whole(d)
  ELSE IF d.len < RtpFixedHeader THEN Whole(d)
  ELSE IF (Byte0(d) \div 64) % 4 # RTP_VERSION THEN Whole(d)
  ELSE LET r == rtpPayloadGet(d) IN
       IF r.err THEN Whole(d)
       ELSE LET payloadType == Byte1(d) % 128
                endOff == r.endOff
                startOff == IF payloadType \in {P_MPGA, P_MPGV} /\ r.startOff + 4 < d.len - endOff
                            THEN r.startOff + 4 ELSE r.startOff
            IN  IF startOff < d.len /\ endOff < d.len /\ startOff < d.len - endOff
                THEN IF d.len - startOff - endOff < MPEG2_TS_PKT_SIZE_MIN
                     THEN Whole(d)
                     ELSE Slice(startOff, d.len - endOff)
                ELSE Whole(d)

\* ------------------------------------------------------------ map helpers
EmptyMap == [x \in {} |-> 0]

MapPut(m, k, v) == [x \in (DOMAIN m) \cup {k} |-> IF x = k THEN v ELSE m[x]]

MapDel(m, k) == [x \in (DOMAIN m) \ {k} |-> m[x]]

Range(m) == {m[x] : x \in DOMAIN m}

\* --------------------------------------------------------- RingBuffer
\* A nil *RingBuffer is the buffer of size 0 (NewRingBuffer is only ever
\* called with a positive size).
NewRingBuffer(size) ==
  [buf |-> [i \in 0..(size - 1) |-> NoFrame], size |-> size, start |-> 0, count |-> 0]

NilBuffer == NewRingBuffer(0)

\* Push that overwrites the oldest frame without moving start (mutant)
PushNoAdvance(r, item) ==
  IF r.count < r.size
  THEN [r EXCEPT !.buf[(r.start + r.count) % r.size] = item, !.count = @ + 1]
  ELSE [r EXCEPT !.buf[r.start] = item]

Push(r, item) ==
  IF r.count < r.size
  THEN [r EXCEPT !.buf[(r.start + r.count) % r.size] = item, !.count = @ + 1]
  ELSE [r EXCEPT !.buf[r.start] = item, !.start = (r.start + 1) % r.size]

GetAll(r) == [i \in 1..r.count |-> r.buf[(r.start + i - 1) % r.size]]

RECURSIVE PushAll(_, _)
PushAll(r, fs) == IF fs = <<>> THEN r ELSE PushAll(Push(r, Head(fs)), Tail(fs))

\* --------------------------------------------------------- client queues
\* A buffered Go channel: contents and whether close() was called on it.
NewChan == [buf |-> <<>>, closed |-> FALSE]

\* --------------------------------------------------------- StreamHub
NewStreamHub ==
  [Clients      |-> EmptyMap,     \* connID -> queue
   ClientsIsNil |-> FALSE,        \* h.Clients == nil
   AddCh        |-> <<>>,
   RemoveCh     |-> <<>>,
   UdpConns     |-> 1,            \* number of open sockets
   Closed       |-> FALSE,        \* close(h.Closed) has happened
   LastFrame    |-> NoFrame,
   CacheBuffer  |-> NewRingBuffer(CacheSize),
   PacketCount  |-> 0,
   DropCount    |-> 0,
   state        |-> StatePlaying,
   OnEmpty      |-> FALSE]        \* h.OnEmpty != nil

IsClosed(h) == hub[h].Closed

\* close() on every queue of qs; closing a closed channel panics.
CloseChans(qs) ==
  IF \E q \in qs : ch[q].closed
  THEN /\ crash' = "close of closed channel"
       /\ ch' = ch
  ELSE /\ crash' = crash
       /\ ch' = [q \in Clis |-> IF q \in qs THEN [ch[q] EXCEPT !.closed = TRUE] ELSE ch[q]]

\* StreamHub.Close with the closed-check left out (mutant).
CloseNoCheck(h) ==
  /\ hub' = [hub EXCEPT ![h] = [@ EXCEPT !.Closed = TRUE, !.UdpConns = 0,
                                          !.Clients = EmptyMap, !.ClientsIsNil = TRUE,
                                          !.CacheBuffer = NilBuffer, !.LastFrame = NoFrame,
                                          !.state = StateStopped]]
  /\ IF hub[h].Closed
     THEN crash' = "close of closed channel" /\ ch' = ch
     ELSE CloseChans(Range(hub[h].Clients))

\* StreamHub.Close: one critical section of h.Mu.
Close(h) ==
  IF hub[h].Closed
  THEN UNCHANGED <<hub, ch, crash>>
  ELSE /\ hub' = [hub EXCEPT ![h] = [@ EXCEPT !.Closed = TRUE, !.UdpConns = 0,
                                               !.Clients = EmptyMap, !.ClientsIsNil = TRUE,
                                               !.CacheBuffer = NilBuffer, !.LastFrame = NoFrame,
                                               !.state = StateStopped]]
       /\ CloseChans(Range(hub[h].Clients))

\* A caller outside the hub calls h.Close().
ExternalClose(h) ==
  /\ crash = "none"
  /\ UNCHANGED pure
  /\ h <= nHubs
  /\ Close(h)
  /\ UNCHANGED <<nHubs, Hubs, run, rl, cli, prime, hist, primed, nFrames, nTransfers>>

\* ------------------------------------------------------ control loop (run)
\* run[h].pc: "select"  waiting in the select of the loop
\*            "close"   remove branch found the table empty, about to call h.Close()
\*            "onempty" h.Close() returned, about to call h.OnEmpty (RemoveHubEx)
\*            "rmclose" RemoveHubEx deleted the registry entry tgt, about to close it
\*            "done"    the loop returned from the remove branch, after OnEmpty
\*                      (tgt: the hub its RemoveHubEx closed, if any)
\*            "stopped" the loop returned from the closed branch
\* The receive of a select case and the critical section that handles it are
\* one step: no other task reads the add- or remove-queue.
RunIdle == [pc |-> "select", tgt |-> NoHub]

\* case client := <-h.AddCh
RunAdd(h) ==
  /\ crash = "none"
  /\ UNCHANGED pure
  /\ h <= nHubs
  /\ run[h].pc = "select"
  /\ hub[h].AddCh # <<>>
  /\ LET client == Head(hub[h].AddCh) IN
       IF hub[h].ClientsIsNil
       THEN /\ crash' = "assignment to entry in nil map"
            /\ hub' = [hub EXCEPT ![h].AddCh = Tail(@)]
            /\ UNCHANGED <<prime, primed>>
       ELSE /\ hub' = [hub EXCEPT ![h].AddCh = Tail(@),
                                  ![h].Clients = MapPut(@, client.connID, client.ch)]
            /\ prime' = [prime EXCEPT ![client.ch] = [pc |-> "snap", hub |-> h, frames |-> <<>>]]
            /\ primed' = [primed EXCEPT ![client.ch] = GetAll(hub[h].CacheBuffer)]
            /\ crash' = crash
  /\ UNCHANGED <<nHubs, Hubs, run, rl, cli, ch, hist, nFrames, nTransfers>>

\* case connID := <-h.RemoveCh
RunRemove(h) ==
  /\ crash = "none"
  /\ UNCHANGED pure
  /\ h <= nHubs
  /\ run[h].pc = "select"
  /\ hub[h].RemoveCh # <<>>
  /\ LET connID == Head(hub[h].RemoveCh)
         ok == connID \in DOMAIN hub[h].Clients
         left == IF ok THEN MapDel(hub[h].Clients, connID) ELSE hub[h].Clients
     IN  /\ hub' = [hub EXCEPT ![h].RemoveCh = Tail(@), ![h].Clients = left]
         /\ IF ok THEN CloseChans({hub[h].Clients[connID]}) ELSE UNCHANGED <<ch, crash>>
         /\ run' = [run EXCEPT ![h].pc = IF DOMAIN left = {} THEN "close" ELSE "select"]
  /\ UNCHANGED <<nHubs, Hubs, rl, cli, prime, hist, primed, nFrames, nTransfers>>

\* remove branch, table empty: h.Close()
RunClose(h) ==
  /\ crash = "none"
  /\ UNCHANGED pure
  /\ h <= nHubs
  /\ run[h].pc = "close"
  /\ Close(h)
  /\ run' = [run EXCEPT ![h].pc = "onempty"]
  /\ UNCHANGED <<nHubs, Hubs, rl, cli, prime, hist, primed, nFrames, nTransfers>>

\* RunOnEmpty with the callback never installed (mutant): the registry keeps
\* the entry.
RunOnEmptyNil(h) ==
  /\ crash = "none"
  /\ UNCHANGED pure
  /\ h <= nHubs
  /\ run[h].pc = "onempty"
  /\ run' = [run EXCEPT ![h].pc = "done"]
  /\ UNCHANGED <<hub, nHubs, Hubs, rl, cli, ch, prime, hist, primed, nFrames, nTransfers, crash>>

\* if h.OnEmpty != nil { h.OnEmpty(h) }, which is RemoveHubEx(addr, ifaces); its
\* first half: under m.Mu look the key up and delete the entry, whichever hub
\* it holds.
RunOnEmpty(h) ==
  /\ crash = "none"
  /\ UNCHANGED pure
  /\ h <= nHubs
  /\ run[h].pc = "onempty"
  /\ IF hub[h].OnEmpty /\ Hubs # NoHub
     THEN /\ run' = [run EXCEPT ![h] = [pc |-> "rmclose", tgt |-> Hubs]]
          /\ Hubs' = NoHub
     ELSE /\ run' = [run EXCEPT ![h].pc = "done"]
          /\ Hubs' = Hubs
  /\ UNCHANGED <<hub, nHubs, rl, cli, ch, prime, hist, primed, nFrames, nTransfers, crash>>

\* RemoveHubEx, second half: hub.Close() on the entry it deleted; run returns.
RunRemoveHubClose(h) ==
  /\ crash = "none"
  /\ UNCHANGED pure
  /\ h <= nHubs
  /\ run[h].pc = "rmclose"
  /\ Close(run[h].tgt)
  /\ run' = [run EXCEPT ![h].pc = "done"]
  /\ UNCHANGED <<nHubs, Hubs, rl, cli, prime, hist, primed, nFrames, nTransfers>>

\* case <-h.Closed
RunClosed(h) ==
  /\ crash = "none"
  /\ UNCHANGED pure
  /\ h <= nHubs
  /\ run[h].pc = "select"
  /\ IsClosed(h)
  /\ CloseChans(Range(hub[h].Clients))
  /\ hub' = [hub EXCEPT ![h].Clients = EmptyMap, ![h].ClientsIsNil = TRUE]
  /\ run' = [run EXCEPT ![h].pc = "stopped"]
  /\ UNCHANGED <<nHubs, Hubs, rl, cli, prime, hist, primed, nFrames, nTransfers>>

\* ------------------------------------------------- priming (sendInitial)
\* prime[q].pc: "none" not started, "snap" about to snapshot the ring,
\*              "check" about to poll h.Closed, "send" about to enqueue, "done"
NoPrime == [pc |-> "none", hub |-> NoHub, frames |-> <<>>]

\* h.Mu.Lock(); cachedFrames := h.CacheBuffer.GetAll(); h.Mu.Unlock()
PrimeSnapshot(q) ==
  /\ crash = "none"
  /\ UNCHANGED pure
  /\ prime[q].pc = "snap"
  /\ LET h == prime[q].hub IN
       IF hub[h].CacheBuffer.size = 0
       THEN /\ crash' = "nil pointer dereference"
            /\ prime' = prime
       ELSE /\ crash' = crash
            /\ LET fs == GetAll(hub[h].CacheBuffer) IN
                 prime' = [prime EXCEPT ![q].frames = fs,
                                        ![q].pc = IF fs = <<>> THEN "done" ELSE "check"]
  /\ UNCHANGED <<hub, nHubs, Hubs, run, rl, cli, ch, hist, primed, nFrames, nTransfers>>

\* select { case <-h.Closed: return; default: }
PrimeCheck(q) ==
  /\ crash = "none"
  /\ UNCHANGED pure
  /\ prime[q].pc = "check"
  /\ prime' = [prime EXCEPT ![q].pc = IF IsClosed(prime[q].hub) THEN "done" ELSE "send"]
  /\ UNCHANGED <<hub, nHubs, Hubs, run, rl, cli, ch, hist, primed, nFrames, nTransfers, crash>>

\* select { case ch <- f: default: return }
PrimeSend(q) ==
  /\ crash = "none"
  /\ UNCHANGED pure
  /\ prime[q].pc = "send"
  /\ LET f == Head(prime[q].frames)
         rest == Tail(prime[q].frames)
     IN  IF ch[q].closed
         THEN /\ crash' = "send on closed channel"
              /\ UNCHANGED <<ch, hist, prime>>
         ELSE /\ crash' = crash
              /\ IF Len(ch[q].buf) < QueueCap
                 THEN /\ ch' = [ch EXCEPT ![q].buf = Append(@, f)]
                      /\ hist' = [hist EXCEPT ![q] = Append(@, f)]
                      /\ prime' = [prime EXCEPT ![q].frames = rest,
                                                ![q].pc = IF rest = <<>> THEN "done" ELSE "check"]
                 ELSE /\ prime' = [prime EXCEPT ![q].pc = "done"]
                      /\ UNCHANGED <<ch, hist>>
  /\ UNCHANGED <<hub, nHubs, Hubs, run, rl, cli, primed, nFrames, nTransfers>>

\* ------------------------------------------- receive loop and broadcast
\* rl[h].pc: "read"   at the top of the loop of readLoop, blocked in ReadFrom
\*           "bcast"  datagram copied and extracted, about to call broadcast
\*           "fanout" broadcast released h.Mu, sending to the snapshot pend
\*           "drop"   the send to cur would block, about to take h.Mu
\*           "done"   readLoop returned
RlIdle == [pc |-> "read", data |-> NoFrame, pend |-> {}, cur |-> 0]

\* One datagram arrives: readLoop copies it and, under h.Mu.RLock, returns when
\* the hub is Stopped or the ring is gone.  The frame's content is its number.
ReadLoopRecv(h) ==
  /\ crash = "none"
  /\ UNCHANGED pure
  /\ h <= nHubs
  /\ rl[h].pc = "read"
  /\ ~IsClosed(h)
  /\ hub[h].UdpConns > 0
  /\ nFrames < MaxFrames
  /\ nFrames' = nFrames + 1
  /\ LET closed == hub[h].state = StateStopped \/ hub[h].CacheBuffer.size = 0 IN
       rl' = [rl EXCEPT ![h] = IF closed THEN [RlIdle EXCEPT !.pc = "done"]
                                         ELSE [RlIdle EXCEPT !.pc = "bcast", !.data = nFrames + 1]]
  /\ UNCHANGED <<hub, nHubs, Hubs, run, cli, ch, prime, hist, primed, nTransfers, crash>>

\* case <-h.Closed at the top of the loop, or ReadFrom fails on a closed socket
ReadLoopExit(h) ==
  /\ crash = "none"
  /\ UNCHANGED pure
  /\ h <= nHubs
  /\ rl[h].pc = "read"
  /\ IsClosed(h) \/ hub[h].UdpConns = 0
  /\ rl' = [rl EXCEPT ![h].pc = "done"]
  /\ UNCHANGED <<hub, nHubs, Hubs, run, cli, ch, prime, hist, primed, nFrames, nTransfers, crash>>

\* broadcast, the critical section: counters, last-frame, ring, state, snapshot
BroadcastBegin(h) ==
  /\ crash = "none"
  /\ UNCHANGED pure
  /\ h <= nHubs
  /\ rl[h].pc = "bcast"
  /\ IF hub[h].CacheBuffer.size = 0 \/ hub[h].ClientsIsNil
     THEN /\ rl' = [rl EXCEPT ![h] = RlIdle]
          /\ hub' = hub
     ELSE /\ hub' = [hub EXCEPT ![h].PacketCount = @ + 1,
                                ![h].LastFrame = rl[h].data,
                                ![h].CacheBuffer = Push(@, rl[h].data),
                                ![h].state = StatePlaying]
          /\ LET clients == Range(hub[h].Clients) IN
               rl' = [rl EXCEPT ![h].pend = clients,
                                ![h].pc = IF clients = {} THEN "read" ELSE "fanout"]
  /\ UNCHANGED <<nHubs, Hubs, run, cli, ch, prime, hist, primed, nFrames, nTransfers, crash>>

\* position of the receive loop after the client q of the snapshot is served
AfterClient(r, q) ==
  [r EXCEPT !.pend = @ \ {q}, !.cur = 0,
            !.pc = IF r.pend \ {q} = {} THEN "read" ELSE "fanout"]

\* select { case client.ch <- data: default: ... } for one client of the
\* snapshot (a map is ranged over in any order)
BroadcastSend(h, q) ==
  /\ crash = "none"
  /\ UNCHANGED pure
  /\ h <= nHubs
  /\ rl[h].pc = "fanout"
  /\ q \in rl[h].pend
  /\ IF ch[q].closed
     THEN /\ crash' = "send on closed channel"
          /\ UNCHANGED <<ch, hist, rl>>
     ELSE /\ crash' = crash
          /\ IF Len(ch[q].buf) < QueueCap
             THEN /\ ch' = [ch EXCEPT ![q].buf = Append(@, rl[h].data)]
                  /\ hist' = [hist EXCEPT ![q] = Append(@, rl[h].data)]
                  /\ rl' = [rl EXCEPT ![h] = AfterClient(@, q)]
             ELSE /\ rl' = [rl EXCEPT ![h].pc = "drop", ![h].cur = q]
                  /\ UNCHANGED <<ch, hist>>
  /\ UNCHANGED <<hub, nHubs, Hubs, run, cli, prime, primed, nFrames, nTransfers>>

\* default branch: under h.Mu count the drop; every ResyncEvery-th drop
\* evicts one queued frame and re-enqueues last-frame, both non-blocking
BroadcastDrop(h) ==
  /\ crash = "none"
  /\ UNCHANGED pure
  /\ h <= nHubs
  /\ rl[h].pc = "drop"
  /\ LET q == rl[h].cur
         n == hub[h].DropCount + 1
         drained == IF ch[q].buf # <<>> THEN Tail(ch[q].buf) ELSE ch[q].buf
         last == hub[h].LastFrame
     IN  /\ hub' = [hub EXCEPT ![h].DropCount = n]
         /\ rl' = [rl EXCEPT ![h] = AfterClient(@, q)]
         /\ IF n % ResyncEvery # 0
            THEN UNCHANGED <<ch, hist, crash>>
            ELSE IF last = NoFrame
            THEN /\ ch' = [ch EXCEPT ![q].buf = drained]
                 /\ UNCHANGED <<hist, crash>>
            ELSE IF ch[q].closed
            THEN /\ crash' = "send on closed channel"
                 /\ ch' = [ch EXCEPT ![q].buf = drained]
                 /\ hist' = hist
            ELSE /\ crash' = crash
                 /\ IF Len(drained) < QueueCap
                    THEN /\ ch' = [ch EXCEPT ![q].buf = Append(drained, last)]
                         /\ hist' = [hist EXCEPT ![q] = Append(@, last)]
                    ELSE /\ ch' = [ch EXCEPT ![q].buf = drained]
                         /\ hist' = hist
  /\ UNCHANGED <<nHubs, Hubs, run, cli, prime, primed, nFrames, nTransfers>>

\* ------------------------------------------------ registry (GetOrCreateHub)
\* cli[c].pc: "start"    about to call GetOrCreateHub
\*            "create"   lookup found no open hub, about to build one
\*            "have"     GetOrCreateHub returned cli[c].hub, about to call ServeHTTP
\*            "enq"      ServeHTTP saw the hub open, about to send on AddCh
\*            "attached" sent on AddCh, the deferred detach is armed
\*            "serving"  in the serve loop
\*            "done"     returned; att tells whether it had sent on AddCh
CliIdle == [pc |-> "start", hub |-> NoHub, connID |-> 0, att |-> FALSE]

\* m.Mu.RLock(); hub, exists := m.Hubs[key]; m.Mu.RUnlock(); exists && !hub.IsClosed()
GetOrCreateLookup(c) ==
  /\ crash = "none"
  /\ UNCHANGED pure
  /\ cli[c].pc = "start"
  /\ IF Hubs # NoHub /\ ~IsClosed(Hubs)
     THEN cli' = [cli EXCEPT ![c].pc = "have", ![c].hub = Hubs]
     ELSE cli' = [cli EXCEPT ![c].pc = "create"]
  /\ UNCHANGED <<hub, nHubs, Hubs, run, rl, ch, prime, hist, primed, nFrames, nTransfers, crash>>

\* NewStreamHub binds, starts run and readLoop; OnEmpty is set; m.Hubs[key] = newHub.
\* The hub is reachable by nobody before the insertion, so this is one step.
GetOrCreateNew(c) ==
  /\ crash = "none"
  /\ UNCHANGED pure
  /\ cli[c].pc = "create"
  /\ nHubs < MaxHubs
  /\ LET h == nHubs + 1 IN
       /\ nHubs' = h
       /\ hub' = [hub EXCEPT ![h] = [NewStreamHub EXCEPT !.OnEmpty = TRUE]]
       /\ run' = [run EXCEPT ![h] = RunIdle]
       /\ rl' = [rl EXCEPT ![h] = RlIdle]
       /\ Hubs' = h
       /\ cli' = [cli EXCEPT ![c].pc = "have", ![c].hub = h]
  /\ UNCHANGED <<ch, prime, hist, primed, nFrames, nTransfers, crash>>

\* NewStreamHub fails (no socket binds): the error goes to the caller.
GetOrCreateFail(c) ==
  /\ crash = "none"
  /\ UNCHANGED pure
  /\ cli[c].pc = "create"
  /\ cli' = [cli EXCEPT ![c].pc = "done"]
  /\ UNCHANGED <<hub, nHubs, Hubs, run, rl, ch, prime, hist, primed, nFrames, nTransfers, crash>>

\* ---------------------------------------------------------- ServeHTTP
\* select { case <-h.Closed: 503; default: }
ServeCheckClosed(c) ==
  /\ crash = "none"
  /\ UNCHANGED pure
  /\ cli[c].pc = "have"
  /\ cli' = [cli EXCEPT ![c].pc = IF IsClosed(cli[c].hub) THEN "done" ELSE "enq"]
  /\ UNCHANGED <<hub, nHubs, Hubs, run, rl, ch, prime, hist, primed, nFrames, nTransfers, crash>>

\* ch := make(chan []byte, cap); h.AddCh <- hubClient{ch, connID}; defer ...
\* Connection ids are interchangeable: request c draws its id from 1..c.
ServeAttach(c, id) ==
  /\ crash = "none"
  /\ UNCHANGED pure
  /\ cli[c].pc = "enq"
  /\ id \in 1..c
  /\ Len(hub[cli[c].hub].AddCh) < ChanCap
  /\ hub' = [hub EXCEPT ![cli[c].hub].AddCh = Append(@, [ch |-> c, connID |-> id])]
  /\ cli' = [cli EXCEPT ![c].pc = "attached", ![c].connID = id, ![c].att = TRUE]
  /\ UNCHANGED <<nHubs, Hubs, run, rl, ch, prime, hist, primed, nFrames, nTransfers, crash>>

\* ServeHTTP returns: the deferred h.RemoveCh <- connID runs.
Detach(c) ==
  /\ Len(hub[cli[c].hub].RemoveCh) < ChanCap
  /\ hub' = [hub EXCEPT ![cli[c].hub].RemoveCh = Append(@, cli[c].connID)]
  /\ cli' = [cli EXCEPT ![c].pc = "done"]

\* the writer is no http.Flusher: 500 and return
ServeNotFlushable(c) ==
  /\ crash = "none"
  /\ UNCHANGED pure
  /\ cli[c].pc = "attached"
  /\ Detach(c)
  /\ UNCHANGED <<nHubs, Hubs, run, rl, ch, prime, hist, primed, nFrames, nTransfers, crash>>

\* WaitForPlaying: false when closed or Error, true when Playing; while
\* Stopped and not closed it waits.
\* WaitForPlaying that forgets the closed test (mutant)
WaitIgnoringClosed(h) == hub[h].state # StateError

WaitForPlaying(h) == ~(IsClosed(h) \/ hub[h].state = StateError) /\ hub[h].state = StatePlaying

ServeWaitForPlaying(c) ==
  /\ crash = "none"
  /\ UNCHANGED pure
  /\ cli[c].pc = "attached"
  /\ IsClosed(cli[c].hub) \/ hub[cli[c].hub].state # StateStopped
  /\ IF WaitForPlaying(cli[c].hub)
     THEN cli' = [cli EXCEPT ![c].pc = "serving"] /\ hub' = hub
     ELSE Detach(c)
  /\ UNCHANGED <<nHubs, Hubs, run, rl, ch, prime, hist, primed, nFrames, nTransfers, crash>>

\* case data, ok := <-ch with ok: the frame is written
ServeRecv(c) ==
  /\ crash = "none"
  /\ UNCHANGED pure
  /\ cli[c].pc = "serving"
  /\ ch[c].buf # <<>>
  /\ ch' = [ch EXCEPT ![c].buf = Tail(@)]
  /\ UNCHANGED <<hub, nHubs, Hubs, run, rl, cli, prime, hist, primed, nFrames, nTransfers, crash>>

\* the same, and w.Write fails: return
ServeWriteError(c) ==
  /\ crash = "none"
  /\ UNCHANGED pure
  /\ cli[c].pc = "serving"
  /\ ch[c].buf # <<>>
  /\ ch' = [ch EXCEPT ![c].buf = Tail(@)]
  /\ Detach(c)
  /\ UNCHANGED <<nHubs, Hubs, run, rl, prime, hist, primed, nFrames, nTransfers, crash>>

\* case data, ok := <-ch with !ok: the queue is closed and drained
ServeQueueClosed(c) ==
  /\ crash = "none"
  /\ UNCHANGED pure
  /\ cli[c].pc = "serving"
  /\ ch[c].closed /\ ch[c].buf = <<>>
  /\ Detach(c)
  /\ UNCHANGED <<nHubs, Hubs, run, rl, ch, prime, hist, primed, nFrames, nTransfers, crash>>

\* case <-ctx.Done()
ServeCancel(c) ==
  /\ crash = "none"
  /\ UNCHANGED pure
  /\ cli[c].pc = "serving"
  /\ Detach(c)
  /\ UNCHANGED <<nHubs, Hubs, run, rl, ch, prime, hist, primed, nFrames, nTransfers, crash>>

\* case <-h.Closed
ServeHubClosed(c) ==
  /\ crash = "none"
  /\ UNCHANGED pure
  /\ cli[c].pc = "serving"
  /\ IsClosed(cli[c].hub)
  /\ Detach(c)
  /\ UNCHANGED <<nHubs, Hubs, run, rl, ch, prime, hist, primed, nFrames, nTransfers, crash>>

\* ----------------------------------------------------- TransferClientsTo
\* non-blocking sends of fs, in order, into a queue holding buf
RECURSIVE SendAll(_, _)
SendAll(buf, fs) ==
  IF fs = <<>> THEN buf
  ELSE SendAll(IF Len(buf) < QueueCap THEN Append(buf, Head(fs)) ELSE buf, Tail(fs))

\* TransferClientsTo that forgets to copy the ring frames (mutant)
TransferClientsToNoRing(h, g) ==
  /\ crash = "none"
  /\ UNCHANGED pure
  /\ h <= nHubs /\ g <= nHubs /\ h # g
  /\ nTransfers < MaxTransfers
  /\ nTransfers' = nTransfers + 1
  /\ IF hub[h].CacheBuffer.size = 0
     THEN /\ crash' = "nil pointer dereference"
          /\ UNCHANGED <<hub, ch, hist>>
     ELSE LET frames == GetAll(hub[h].CacheBuffer)
              ring == IF hub[g].CacheBuffer.size = 0
                      THEN NewRingBuffer(hub[h].CacheBuffer.size) ELSE hub[g].CacheBuffer
              moved == hub[h].Clients
              table == [id \in (DOMAIN hub[g].Clients) \cup (DOMAIN moved) |->
                          IF id \in DOMAIN moved THEN moved[id] ELSE hub[g].Clients[id]]
              sent == IF hub[h].LastFrame # NoFrame
                      THEN Append(frames, hub[h].LastFrame) ELSE frames
              qs == Range(moved)
          IN  /\ hub' = [hub EXCEPT ![g].CacheBuffer = ring,
                                    ![g].Clients = table,
                                    ![g].ClientsIsNil = FALSE,
                                    ![h].Clients = EmptyMap,
                                    ![h].ClientsIsNil = FALSE]
              /\ IF \E q \in qs : ch[q].closed /\ sent # <<>>
                 THEN /\ crash' = "send on closed channel"
                      /\ UNCHANGED <<ch, hist>>
                 ELSE /\ crash' = crash
                      /\ ch' = [q \in Clis |-> IF q \in qs
                                   THEN [ch[q] EXCEPT !.buf = SendAll(@, sent)] ELSE ch[q]]
                      /\ hist' = [q \in Clis |-> IF q \in qs
                                   THEN hist[q] \o SubSeq(SendAll(ch[q].buf, sent),
                                                          Len(ch[q].buf) + 1,
                                                          Len(SendAll(ch[q].buf, sent)))
                                   ELSE hist[q]]
  /\ UNCHANGED <<nHubs, Hubs, run, rl, cli, prime, primed, nFrames>>

\* h.TransferClientsTo(g) for two different hubs, under both locks.  The
\* readers of the client queues take no lock; their receives between two
\* sends of the transfer are not modelled.
TransferClientsTo(h, g) ==
  /\ crash = "none"
  /\ UNCHANGED pure
  /\ h <= nHubs /\ g <= nHubs /\ h # g
  /\ nTransfers < MaxTransfers
  /\ nTransfers' = nTransfers + 1
  /\ IF hub[h].CacheBuffer.size = 0
     THEN /\ crash' = "nil pointer dereference"
          /\ UNCHANGED <<hub, ch, hist>>
     ELSE LET frames == GetAll(hub[h].CacheBuffer)
              ring == IF hub[g].CacheBuffer.size = 0
                      THEN NewRingBuffer(hub[h].CacheBuffer.size) ELSE hub[g].CacheBuffer
              moved == hub[h].Clients
              table == [id \in (DOMAIN hub[g].Clients) \cup (DOMAIN moved) |->
                          IF id \in DOMAIN moved THEN moved[id] ELSE hub[g].Clients[id]]
              sent == IF hub[h].LastFrame # NoFrame
                      THEN Append(frames, hub[h].LastFrame) ELSE frames
              qs == Range(moved)
          IN  /\ hub' = [hub EXCEPT ![g].CacheBuffer = PushAll(ring, frames),
                                    ![g].Clients = table,
                                    ![g].ClientsIsNil = FALSE,
                                    ![h].Clients = EmptyMap,
                                    ![h].ClientsIsNil = FALSE]
              /\ IF \E q \in qs : ch[q].closed /\ sent # <<>>
                 THEN /\ crash' = "send on closed channel"
                      /\ UNCHANGED <<ch, hist>>
                 ELSE /\ crash' = crash
                      /\ ch' = [q \in Clis |-> IF q \in qs
                                   THEN [ch[q] EXCEPT !.buf = SendAll(@, sent)] ELSE ch[q]]
                      /\ hist' = [q \in Clis |-> IF q \in qs
                                   THEN hist[q] \o SubSeq(SendAll(ch[q].buf, sent),
                                                          Len(ch[q].buf) + 1,
                                                          Len(SendAll(ch[q].buf, sent)))
                                   ELSE hist[q]]
  /\ UNCHANGED <<nHubs, Hubs, run, rl, cli, prime, primed, nFrames>>

\* ------------------------------------------------------------ behaviours
\* Spec: the data path of one hub.  Hub 1 has been constructed by
\* GetOrCreateHub (registered, OnEmpty installed) and GetOrCreateHub has handed
\* it to every request; datagrams arrive, requests attach, read and detach,
\* and the hub closes itself when its table runs empty.
Init ==
  /\ hub = [h \in HubIds |-> IF h = 1 THEN [NewStreamHub EXCEPT !.OnEmpty = TRUE] ELSE NewStreamHub]
  /\ nHubs = 1
  /\ Hubs = 1
  /\ run = [h \in HubIds |-> IF h = 1 THEN RunIdle ELSE [RunIdle EXCEPT !.pc = "none"]]
  /\ rl = [h \in HubIds |-> IF h = 1 THEN RlIdle ELSE [RlIdle EXCEPT !.pc = "none"]]
  /\ cli = [c \in Clis |-> [CliIdle EXCEPT !.pc = "have", !.hub = 1]]
  /\ ch = [c \in Clis |-> NewChan]
  /\ prime = [c \in Clis |-> NoPrime]
  /\ hist = [c \in Clis |-> <<>>]
  /\ primed = [c \in Clis |-> <<>>]
  /\ nFrames = 0
  /\ nTransfers = 0
  /\ crash = "none"
  /\ rb = NewRingBuffer(CacheSize)
  /\ pushed = <<>>
  /\ pkt = NoPacket
  /\ out = NoOut
  /\ socks = [s \in SockIds |-> NoSock]
  /\ upd = NoUpdate

Next ==
     \/ \E h \in HubIds : RunAdd(h)
     \/ \E h \in HubIds : RunRemove(h)
     \/ \E h \in HubIds : RunClose(h)
     \/ \E h \in HubIds : RunOnEmpty(h)
     \/ \E h \in HubIds : RunRemoveHubClose(h)
     \/ \E q \in Clis : PrimeSnapshot(q)
     \/ \E q \in Clis : PrimeCheck(q)
     \/ \E q \in Clis : PrimeSend(q)
     \/ \E h \in HubIds : ReadLoopRecv(h)
     \/ \E h \in HubIds : ReadLoopExit(h)
     \/ \E h \in HubIds : BroadcastBegin(h)
     \/ \E h \in HubIds, q \in Clis : BroadcastSend(h, q)
     \/ \E h \in HubIds : BroadcastDrop(h)
     \/ \E c \in Clis : ServeCheckClosed(c)
     \/ \E c \in Clis, id \in Clis : ServeAttach(c, id)
     \/ \E c \in Clis : ServeNotFlushable(c)
     \/ \E c \in Clis : ServeWaitForPlaying(c)
     \/ \E c \in Clis : ServeRecv(c)
     \/ \E c \in Clis : ServeWriteError(c)
     \/ \E c \in Clis : ServeQueueClosed(c)
     \/ \E c \in Clis : ServeCancel(c)
     \/ \E c \in Clis : ServeHubClosed(c)

Spec == Init /\ [][Next]_vars

\* SpecReg: the registry and the life cycle of its hubs, from an empty
\* registry, while no datagram arrives: requests get or create the hub of one
\* key, attach and detach; hubs are closed by their control loop, by RemoveHubEx
\* and by outside callers, and clients are transferred between hubs.
InitReg ==
  /\ hub = [h \in HubIds |-> NewStreamHub]
  /\ nHubs = 0
  /\ Hubs = NoHub
  /\ run = [h \in HubIds |-> [RunIdle EXCEPT !.pc = "none"]]
  /\ rl = [h \in HubIds |-> [RlIdle EXCEPT !.pc = "none"]]
  /\ cli = [c \in Clis |-> CliIdle]
  /\ ch = [c \in Clis |-> NewChan]
  /\ prime = [c \in Clis |-> NoPrime]
  /\ hist = [c \in Clis |-> <<>>]
  /\ primed = [c \in Clis |-> <<>>]
  /\ nFrames = 0
  /\ nTransfers = 0
  /\ crash = "none"
  /\ rb = NewRingBuffer(CacheSize)
  /\ pushed = <<>>
  /\ pkt = NoPacket
  /\ out = NoOut
  /\ socks = [s \in SockIds |-> NoSock]
  /\ upd = NoUpdate

NextReg ==
     \/ \E c \in Clis : GetOrCreateLookup(c)
     \/ \E c \in Clis : GetOrCreateNew(c)
     \/ \E c \in Clis : GetOrCreateFail(c)
     \/ \E h \in HubIds : ExternalClose(h)
     \/ \E h \in HubIds : RunAdd(h)
     \/ \E h \in HubIds : RunRemove(h)
     \/ \E h \in HubIds : RunClose(h)
     \/ \E h \in HubIds : RunOnEmpty(h)
     \/ \E h \in HubIds : RunRemoveHubClose(h)
     \/ \E h \in HubIds : RunClosed(h)
     \/ \E q \in Clis : PrimeSnapshot(q)
     \/ \E h \in HubIds : ReadLoopExit(h)
     \/ \E c \in Clis : ServeCheckClosed(c)
     \/ \E c \in Clis, id \in Clis : ServeAttach(c, id)
     \/ \E c \in Clis : ServeNotFlushable(c)
     \/ \E c \in Clis : ServeWaitForPlaying(c)
     \/ \E c \in Clis : ServeQueueClosed(c)
     \/ \E c \in Clis : ServeCancel(c)
     \/ \E c \in Clis : ServeHubClosed(c)
     \/ \E h \in HubIds, g \in HubIds : TransferClientsTo(h, g)

SpecReg == InitReg /\ [][NextReg]_vars

\* the hub model before any hub is built
hubVars == <<hub, nHubs, Hubs, run, rl, cli, ch, prime, hist, primed, nFrames, nTransfers, crash>>

NoHubsYet ==
  /\ hub = [h \in HubIds |-> NewStreamHub]
  /\ nHubs = 0
  /\ Hubs = NoHub
  /\ run = [h \in HubIds |-> [RunIdle EXCEPT !.pc = "none"]]
  /\ rl = [h \in HubIds |-> [RlIdle EXCEPT !.pc = "none"]]
  /\ cli = [c \in Clis |-> CliIdle]
  /\ ch = [c \in Clis |-> NewChan]
  /\ prime = [c \in Clis |-> NoPrime]
  /\ hist = [c \in Clis |-> <<>>]
  /\ primed = [c \in Clis |-> <<>>]
  /\ nFrames = 0
  /\ nTransfers = 0
  /\ crash = "none"

\* ------------------------------------------- requests against one hub, fair
\* One registered hub and MaxClients requests that hold it; the hub may be
\* closed from outside at any time.  Every task that can take a step of the
\* program eventually takes one: the Go scheduler starves no runnable
\* goroutine.  What depends on the peer (a writer that cannot flush, a
\* cancelled context) may happen or not.
ServeStep(c) ==
  \/ ServeCheckClosed(c)
  \/ \E id \in 1..c : ServeAttach(c, id)
  \/ ServeWaitForPlaying(c)
  \/ ServeQueueClosed(c)
  \/ ServeHubClosed(c)

RunStep(h) ==
  \/ RunAdd(h) \/ RunRemove(h) \/ RunClose(h)
  \/ RunOnEmpty(h) \/ RunRemoveHubClose(h) \/ RunClosed(h)

NextLive ==
     \/ \E c \in Clis : ServeCheckClosed(c)
     \/ \E c \in Clis, id \in Clis : ServeAttach(c, id)
     \/ \E c \in Clis : ServeNotFlushable(c)
     \/ \E c \in Clis : ServeWaitForPlaying(c)
     \/ \E c \in Clis : ServeCancel(c)
     \/ \E c \in Clis : ServeQueueClosed(c)
     \/ \E c \in Clis : ServeHubClosed(c)
     \/ \E h \in HubIds : RunAdd(h)
     \/ \E h \in HubIds : RunRemove(h)
     \/ \E h \in HubIds : RunClose(h)
     \/ \E h \in HubIds : RunOnEmpty(h)
     \/ \E h \in HubIds : RunRemoveHubClose(h)
     \/ \E h \in HubIds : RunClosed(h)
     \/ \E q \in Clis : PrimeSnapshot(q)
     \/ \E h \in HubIds : ExternalClose(h)

Fairness ==
  /\ \A c \in Clis : WF_vars(ServeStep(c))
  /\ \A h \in HubIds : WF_vars(RunStep(h))
  /\ \A q \in Clis : WF_vars(PrimeSnapshot(q))

SpecLive == Init /\ [][NextLive]_vars /\ Fairness

\* --------------------------------------------------- processRTPPacket alone
\* Datagrams around the size limit, with every version, flag combination and
\* a choice of CSRC counts, payload types, extension lengths and last bytes.
Lens == {0, 100, 187, 188, 200, 260, 400}
CCs == {0, 1, 7, 15}
PTs == {P_MPGA, P_MPGV, 33, 96}
Exts == {<<0, 0>>, <<0, 1>>, <<0, 3>>, <<0, 40>>, <<1, 0>>}
Lasts == {0, 1, 12, 200, 255}
Packets ==
  [len : Lens, V : 0..3, P : 0..1, X : 0..1, CC : CCs, M : 0..1, PT : PTs,
   ext : Exts, last : Lasts]

InitRtp ==
  /\ NoHubsYet
  /\ rb = NewRingBuffer(CacheSize)
  /\ pushed = <<>>
  /\ pkt \in Packets
  /\ out = NoOut
  /\ socks = [s \in SockIds |-> NoSock]
  /\ upd = NoUpdate

\* data = h.processRTPPacket(data) in readLoop
ProcessPacket ==
  /\ out = NoOut
  /\ out' = processRTPPacket(pkt)
  /\ UNCHANGED <<hubVars, rb, pushed, pkt, socks, upd>>

NextRtp == ProcessPacket

SpecRtp == InitRtp /\ [][NextRtp]_vars

\* ------------------------------------------------------- UpdateInterfaces
\* h.UdpConns as a set of sockets
ConnsOf(h) == {s \in SockIds : socks[s].hub = h /\ socks[s].held}
Bound == {s \in SockIds : socks[s].hub # NoHub}

\* UpdateInterfaces that swaps the sockets in without closing the old ones
\* (mutant)
UpdateInterfacesLeak(h, B) ==
  /\ crash = "none"
  /\ h <= nHubs
  /\ B \subseteq 1..upd.addrs
  /\ upd.calls < MaxUpdates
  /\ LET n == Cardinality(Bound)
         newConns == (n + 1)..(n + Cardinality(B))
     IN  IF newConns = {}
         THEN /\ upd' = [upd EXCEPT !.calls = @ + 1, !.ok = "err"]
              /\ UNCHANGED <<hub, socks>>
         ELSE /\ socks' = [s \in SockIds |->
                    IF s \in newConns
                    THEN [hub |-> h, open |-> TRUE, held |-> TRUE, loop |-> "read"]
                    ELSE IF s \in ConnsOf(h)
                    THEN [socks[s] EXCEPT !.held = FALSE]
                    ELSE socks[s]]
              /\ hub' = [hub EXCEPT ![h].UdpConns = Cardinality(newConns)]
              /\ upd' = [upd EXCEPT !.calls = @ + 1, !.ok = "ok"]
  /\ UNCHANGED <<nHubs, Hubs, run, rl, cli, ch, prime, hist, primed, nFrames, nTransfers,
                 crash, rb, pushed, pkt, out>>

\* h.UpdateInterfaces(ifaces), one critical section of h.Mu.  B: the addresses
\* of h.AddrList for which a socket binds (on one of ifaces or on the default
\* interface).  No socket bound: an error, nothing changed.  Otherwise every
\* socket of h.UdpConns is closed, h.UdpConns = newConns, and startReadLoops
\* starts one readLoop per new socket.
UpdateInterfaces(h, B) ==
  /\ crash = "none"
  /\ h <= nHubs
  /\ B \subseteq 1..upd.addrs
  /\ upd.calls < MaxUpdates
  /\ LET n == Cardinality(Bound)
         newConns == (n + 1)..(n + Cardinality(B))
     IN  IF newConns = {}
         THEN /\ upd' = [upd EXCEPT !.calls = @ + 1, !.ok = "err"]
              /\ UNCHANGED <<hub, socks>>
         ELSE /\ socks' = [s \in SockIds |->
                    IF s \in newConns
                    THEN [hub |-> h, open |-> TRUE, held |-> TRUE, loop |-> "read"]
                    ELSE IF s \in ConnsOf(h)
                    THEN [socks[s] EXCEPT !.open = FALSE, !.held = FALSE]
                    ELSE socks[s]]
              /\ hub' = [hub EXCEPT ![h].UdpConns = Cardinality(newConns)]
              /\ upd' = [upd EXCEPT !.calls = @ + 1, !.ok = "ok"]
  /\ UNCHANGED <<nHubs, Hubs, run, rl, cli, ch, prime, hist, primed, nFrames, nTransfers,
                 crash, rb, pushed, pkt, out>>

\* readLoop of socket s returns: case <-h.Closed at the top of its loop, or
\* ReadFrom fails on the closed socket
SockLoopExit(s) ==
  /\ crash = "none"
  /\ socks[s].loop = "read"
  /\ ~socks[s].open \/ IsClosed(socks[s].hub)
  /\ socks' = [socks EXCEPT ![s].loop = "done"]
  /\ UNCHANGED <<hubVars, rb, pushed, pkt, out, upd>>

\* hub 1 after k datagrams were broadcast, with one client that has read them
\* all (or none), open or closed
HubAfter(k, withClient) ==
  [NewStreamHub EXCEPT !.OnEmpty = TRUE,
                       !.PacketCount = k,
                       !.LastFrame = IF k = 0 THEN NoFrame ELSE k,
                       !.CacheBuffer = PushAll(NewRingBuffer(CacheSize), [i \in 1..k |-> i]),
                       !.Clients = IF withClient THEN MapPut(EmptyMap, 1, 1) ELSE EmptyMap]

AfterClose(r) ==
  [r EXCEPT !.Closed = TRUE, !.UdpConns = 0, !.Clients = EmptyMap, !.ClientsIsNil = TRUE,
            !.CacheBuffer = NilBuffer, !.LastFrame = NoFrame, !.state = StateStopped]

InitUpd ==
  \E k \in 0..MaxFrames, withClient \in BOOLEAN, closed \in BOOLEAN,
     addrs \in 1..MaxAddrs, conns \in 1..MaxAddrs :
    /\ conns <= addrs
    /\ closed => ~withClient
    /\ hub = [h \in HubIds |->
                IF h # 1 THEN NewStreamHub
                ELSE IF closed THEN AfterClose(HubAfter(k, FALSE))
                ELSE [HubAfter(k, withClient) EXCEPT !.UdpConns = conns]]
    /\ nHubs = 1
    /\ Hubs = IF closed THEN NoHub ELSE 1
    /\ run = [h \in HubIds |-> [RunIdle EXCEPT !.pc = IF h # 1 THEN "none"
                                               ELSE IF closed THEN "stopped" ELSE "select"]]
    /\ rl = [h \in HubIds |-> [RlIdle EXCEPT !.pc = "none"]]
    /\ cli = [c \in Clis |-> IF c = 1 /\ withClient
                             THEN [pc |-> "serving", hub |-> 1, connID |-> 1, att |-> TRUE]
                             ELSE [CliIdle EXCEPT !.pc = "done"]]
    /\ ch = [c \in Clis |-> NewChan]
    /\ prime = [c \in Clis |-> IF c = 1 /\ withClient
                               THEN [pc |-> "done", hub |-> 1, frames |-> <<>>] ELSE NoPrime]
    /\ hist = [c \in Clis |-> IF c = 1 /\ withClient THEN [i \in 1..k |-> i] ELSE <<>>]
    /\ primed = [c \in Clis |-> <<>>]
    /\ nFrames = k
    /\ nTransfers = 0
    /\ crash = "none"
    /\ rb = NewRingBuffer(CacheSize)
    /\ pushed = <<>>
    /\ pkt = NoPacket
    /\ out = NoOut
    /\ socks = [s \in SockIds |->
                  IF s <= conns
                  THEN [hub |-> 1, open |-> ~closed, held |-> ~closed, loop |-> "read"]
                  ELSE NoSock]
    /\ upd = [NoUpdate EXCEPT !.addrs = addrs]

NextUpd ==
     \/ \E h \in HubIds, B \in SUBSET (1..MaxAddrs) : UpdateInterfaces(h, B)
     \/ \E s \in SockIds : SockLoopExit(s)

SpecUpd == InitUpd /\ [][NextUpd]_vars

\* -------------------------------------------------- TransferClientsTo
\* Two hubs that have each broadcast some frames (hub 1 the frames 1..k, hub 2
\* the j frames after them) and requests that are being served by one of them
\* or have not attached; a served request has read all its frames but,
\* possibly, the last.  Clients are moved from one hub to the other, hubs are
\* closed from outside, requests read.
FramesOf(from, n) == [i \in 1..n |-> from + i]

HubHolding(fs, cs) ==
  [NewStreamHub EXCEPT !.PacketCount = Len(fs),
                       !.LastFrame = IF fs = <<>> THEN NoFrame ELSE fs[Len(fs)],
                       !.CacheBuffer = PushAll(NewRingBuffer(CacheSize), fs),
                       !.Clients = [c \in cs |-> c]]

InitXfer ==
  \E k \in 0..MaxFrames, j \in 0..MaxFrames, at \in [Clis -> {NoHub} \cup HubIds],
     unread \in SUBSET Clis :
    LET fs == [h \in HubIds |-> IF h = 1 THEN FramesOf(0, k)
                                ELSE IF h = 2 THEN FramesOf(k, j) ELSE <<>>]
        got(c) == IF at[c] = NoHub THEN <<>> ELSE fs[at[c]]
    IN  /\ \A c \in unread : got(c) # <<>>
        /\ \A c \in Clis : at[c] <= 2
        /\ hub = [h \in HubIds |-> HubHolding(fs[h], {c \in Clis : at[c] = h})]
        /\ nHubs = 2
        /\ Hubs = 1
        /\ run = [h \in HubIds |-> [RunIdle EXCEPT !.pc = IF h <= 2 THEN "select" ELSE "none"]]
        /\ rl = [h \in HubIds |-> [RlIdle EXCEPT !.pc = IF h <= 2 THEN "read" ELSE "none"]]
        /\ cli = [c \in Clis |-> IF at[c] = NoHub THEN [CliIdle EXCEPT !.pc = "done"]
                                 ELSE [pc |-> "serving", hub |-> at[c], connID |-> c, att |-> TRUE]]
        /\ ch = [c \in Clis |-> IF c \in unread
                                THEN [NewChan EXCEPT !.buf = <<got(c)[Len(got(c))]>>]
                                ELSE NewChan]
        /\ prime = [c \in Clis |-> IF at[c] = NoHub THEN NoPrime
                                   ELSE [pc |-> "done", hub |-> at[c], frames |-> <<>>]]
        /\ hist = [c \in Clis |-> got(c)]
        /\ primed = [c \in Clis |-> <<>>]
        /\ nFrames = k + j
        /\ nTransfers = 0
        /\ crash = "none"
        /\ rb = NewRingBuffer(CacheSize)
        /\ pushed = <<>>
        /\ pkt = NoPacket
        /\ out = NoOut
        /\ socks = [s \in SockIds |-> NoSock]
        /\ upd = NoUpdate

NextXfer ==
     \/ \E h, g \in HubIds : TransferClientsTo(h, g)
     \/ \E h \in HubIds : ExternalClose(h)
     \/ \E c \in Clis : ServeRecv(c)

SpecXfer == InitXfer /\ [][NextXfer]_vars

\* ------------------------------------------------------ the ring buffer alone
\* A RingBuffer of any capacity 1..MaxRingSize, into which frames are pushed.
InitRing ==
  /\ NoHubsYet
  /\ \E size \in 1..MaxRingSize : rb = NewRingBuffer(size)
  /\ pushed = <<>>
  /\ pkt = NoPacket
  /\ out = NoOut
  /\ socks = [s \in SockIds |-> NoSock]
  /\ upd = NoUpdate

\* r.Push(item)
RingPush(item) ==
  /\ Len(pushed) < MaxPushes
  /\ rb' = Push(rb, item)
  /\ pushed' = Append(pushed, item)
  /\ UNCHANGED <<hubVars, pkt, out, socks, upd>>

NextRing == \E item \in 1..MaxFrames : RingPush(item)

SpecRing == InitRing /\ [][NextRing]_vars

\* ------------------------------------------------------------ properties
\* request c sent on the add-queue and its ServeHTTP has returned
Returned(c) == cli[c].pc = "done" /\ cli[c].att

\* the control loop of h has nothing left to handle: both request queues are
\* empty and the loop is back in its select or has returned
Consumed(h) ==
  /\ hub[h].AddCh = <<>>
  /\ hub[h].RemoveCh = <<>>
  /\ run[h].pc \in {"select", "done", "stopped"}

\* C1: no send is ever attempted on a client queue that has been closed
\* (a send on a closed channel is the panic recorded in crash).
C1_NoSendAfterClose == crash # "send on closed channel"

\* the connection id of request c is used by no other request
UniqueConnID(c) == \A d \in Clis \ {c} : cli[d].connID # cli[c].connID

\* C2: a client queue handed to a hub through the add-queue is closed exactly
\* once: it is never closed twice, and once the hub has closed, its control
\* loop has returned and ServeHTTP has returned, the queue is closed (stated
\* here only for a request whose connection id no other request uses).
C2_ClosedExactlyOnce ==
  /\ crash # "close of closed channel"
  /\ \A c \in Clis :
       (Returned(c) /\ UniqueConnID(c) /\ IsClosed(cli[c].hub)
          /\ run[cli[c].hub].pc \in {"done", "stopped"})
         => ch[c].closed

\* some task calls h.Close() in this step
CloseCalled(h) ==
  \/ ExternalClose(h)
  \/ RunClose(h)
  \/ \E g \in HubIds : RunRemoveHubClose(g) /\ run[g].tgt = h

\* C3: Close is idempotent: the closed signal of a hub, once raised, is never
\* raised again or lowered, and a call of Close on a hub that is already
\* closed changes nothing of the hub, of any client queue, and panics not.
C3_CloseIdempotent ==
  [][\A h \in HubIds :
       /\ hub[h].Closed => hub'[h].Closed
       /\ (hub[h].Closed /\ CloseCalled(h)) =>
            (hub'[h] = hub[h] /\ ch' = ch /\ crash' = crash)]_vars

\* C3 witness: the control loop of h closed h when its table ran empty, and
\* the RemoveHubEx of its OnEmpty then called Close on the same, closed hub.
C3_Witness ==
  \E h \in HubIds : run[h].pc = "done" /\ run[h].tgt = h /\ hub[h].Closed

\* C4: once the closed signal of a hub is raised its clients table holds no
\* client, and the control loop never inserts an attach request into it (the
\* insertion into the table of a closed hub, which is nil, is the panic
\* recorded in crash).
C4_NoClientAfterClosed ==
  /\ crash # "assignment to entry in nil map"
  /\ \A h \in HubIds : hub[h].Closed => DOMAIN hub[h].Clients = {}

\* the queue of request c is in the clients table of hub h
InTable(c, h) == \E id \in DOMAIN hub[h].Clients : hub[h].Clients[id] = c

\* C5: scoped attach guarantees detach: once a request that sent on the
\* add-queue of a hub has returned from ServeHTTP and the control loop has
\* consumed every pending add and remove request, the request's queue is no
\* longer in the clients table of that hub while the hub is open (stated here
\* only for a request whose connection id no other request uses).
C5_AttachGuaranteesDetach ==
  \A c \in Clis :
    (Returned(c) /\ UniqueConnID(c) /\ ~IsClosed(cli[c].hub) /\ Consumed(cli[c].hub))
      => ~InTable(c, cli[c].hub)

Holders(h) == {c \in Clis : cli[c].hub = h}
Holding(c) == cli[c].hub # NoHub /\ cli[c].pc \in {"have", "enq", "attached", "serving"}
NoDetachYet == \A e \in Clis : cli[e].pc # "done"
\* every request that obtained h has attached and returned, with ids of its
\* own, the control loop of h has consumed all their add and remove requests,
\* and no client was migrated between hubs
FullyDetached(h) ==
  /\ h <= nHubs
  /\ nTransfers = 0
  /\ Holders(h) # {}
  /\ \A c \in Holders(h) : Returned(c) /\ UniqueConnID(c)
  /\ Consumed(h)
\* what a GetOrCreateHub called now would find: h registered and open
WouldReturn(h) == Hubs = h /\ ~IsClosed(h)

\* C7 (first half): a GetOrCreateHub called while another request holds an open
\* hub it got from GetOrCreateHub, no request having detached, returns that hub.
C7_SameHub ==
  [][\A c \in Clis : GetOrCreateLookup(c) =>
       \A d \in Clis \ {c} :
         (Holding(d) /\ ~IsClosed(cli[d].hub) /\ NoDetachYet) =>
           (cli'[c].pc = "have" /\ cli'[c].hub = cli[d].hub /\ ~IsClosed(cli[d].hub)')]_vars

\* C7: GetOrCreateHub after GetOrCreateHub with no detach in between returns
\* the same open hub, and once all clients of a hub have attached and detached
\* and the control loop has handled it all, GetOrCreateHub no longer returns
\* that hub.
C7_SameThenFresh ==
  /\ C7_SameHub
  /\ [](\A h \in HubIds : FullyDetached(h) => ~WouldReturn(h))

HasSockets(h) == h <= nHubs /\ ~hub[h].Closed /\ hub[h].UdpConns > 0

\* C8: at any time at most one open hub with sockets exists for the key, and
\* two requests that hold open hubs hold the same hub.
C8_OneOpenHub ==
  /\ \A h, g \in HubIds : (HasSockets(h) /\ HasSockets(g)) => h = g
  /\ \A c, d \in Clis :
       (Holding(c) /\ Holding(d) /\ HasSockets(cli[c].hub) /\ HasSockets(cli[d].hub))
         => cli[c].hub = cli[d].hub

IsPrefix(s, t) == Len(s) <= Len(t) /\ SubSeq(t, 1, Len(s)) = s
\* the frames the ring held when q was inserted
RingAtAttach(q) == {primed[q][i] : i \in DOMAIN primed[q]}

\* C9: what a client's queue was sent is a prefix of the ring as it was when
\* the client was inserted (priming may stop early on a full queue), followed
\* only by frames broadcast after the insertion.
C9_PrimingPrecedesLive ==
  \A q \in Clis :
    \E k \in 0..Len(hist[q]) :
      /\ IsPrefix(SubSeq(hist[q], 1, k), primed[q])
      /\ \A j \in (k + 1)..Len(hist[q]) : hist[q][j] \notin RingAtAttach(q)

\* C10: frames are numbered in broadcast order, so the sequence of frames
\* enqueued into one client's queue never steps back to an earlier frame.
C10_DeliveryInBroadcastOrder ==
  \A q \in Clis :
    \A i, j \in DOMAIN hist[q] : i < j => hist[q][i] <= hist[q][j]

\* what the default branch of broadcast may do to the queue q of hub h: count
\* one drop and leave the queue alone, except on every ResyncEvery-th drop,
\* where at most the head is removed and last-frame appended if there is room
DropEffect(h, q) ==
  LET n == hub[h].DropCount + 1
      buf == ch[q].buf
      drained == IF buf # <<>> THEN Tail(buf) ELSE buf
  IN  /\ hub'[h].DropCount = n
      /\ n % ResyncEvery # 0 => ch'[q] = ch[q]
      /\ n % ResyncEvery = 0 =>
           /\ ch'[q].closed = ch[q].closed
           /\ ch'[q].buf = IF hub[h].LastFrame # NoFrame /\ Len(drained) < QueueCap
                           THEN Append(drained, hub[h].LastFrame)
                           ELSE drained

\* C11: broadcast never waits for a client: at every client of its snapshot
\* its next step is enabled whatever the queue holds, each step on a client
\* whose queue is full completes (without a panic), and the default branch
\* has exactly the drop effect.
C11_BackPressureNeverBlocks ==
  /\ [][\A h \in HubIds :
          /\ (\E q \in Clis : BroadcastSend(h, q) /\ Len(ch[q].buf) = QueueCap)
               => crash' = "none"
          /\ BroadcastDrop(h) => (crash' = "none" /\ DropEffect(h, rl[h].cur))]_vars
  /\ [](\A h \in HubIds : crash = "none" =>
          /\ rl[h].pc = "fanout" => \A q \in rl[h].pend : ENABLED BroadcastSend(h, q)
          /\ rl[h].pc = "drop" => ENABLED BroadcastDrop(h))

\* the same with the panics of broadcast left aside
C11_DropEffectOnly ==
  /\ [][\A h \in HubIds :
          (BroadcastDrop(h) /\ crash' = "none") => DropEffect(h, rl[h].cur)]_vars
  /\ [](\A h \in HubIds : crash = "none" =>
          /\ rl[h].pc = "fanout" => \A q \in rl[h].pend : ENABLED BroadcastSend(h, q)
          /\ rl[h].pc = "drop" => ENABLED BroadcastDrop(h))

Min(a, b) == IF a <= b THEN a ELSE b
\* the last n elements of s, oldest first
LastN(s, n) == SubSeq(s, Len(s) - n + 1, Len(s))

\* C12: after k pushes into a ring of capacity N, GetAll is the last min(k, N)
\* pushed frames, oldest first, and a further push is always possible: the
\* indices Push writes and GetAll reads stay inside the buffer.
C12_RingKeepsLastN ==
  LET k == Len(pushed)
      N == rb.size
  IN  /\ Len(GetAll(rb)) = Min(k, N)
      /\ GetAll(rb) = LastN(pushed, Min(k, N))
      /\ rb.start \in 0..(N - 1) /\ rb.count \in 0..N
      /\ DOMAIN rb.buf = 0..(N - 1)
      /\ k < MaxPushes => \A item \in 1..MaxFrames : ENABLED RingPush(item)

\* C12 witness: more frames were pushed than the ring holds, and the frame
\* that was overwritten differs from the oldest one kept.
C12_Witness ==
  /\ Len(pushed) > rb.size
  /\ rb.size > 1
  /\ pushed[Len(pushed) - rb.size] # pushed[Len(pushed) - rb.size + 1]
  /\ GetAll(rb) = LastN(pushed, rb.size)

InServeHTTP(c) == cli[c].pc \in {"enq", "attached", "serving"}

\* C14: a request that is inside ServeHTTP when its hub is closed, or whose
\* queue is closed, eventually returns (unless the process has panicked).
C14_ServeHTTPReturns ==
  \A c \in Clis :
    (InServeHTTP(c) /\ (IsClosed(cli[c].hub) \/ ch[c].closed))
      ~> (cli[c].pc = "done" \/ crash # "none")

\* header length and padding of a datagram as RTP defines them
HeaderLen(d) ==
  RtpFixedHeader + 4 * d.CC + (IF d.X = 1 THEN 4 + 4 * (d.ext[1] * 256 + d.ext[2]) ELSE 0)
Pad(d) == IF d.P = 1 THEN d.last ELSE 0
WellFormed(d) == HeaderLen(d) + Pad(d) <= d.len

\* C15: a datagram shorter than 188 bytes, starting with 0x47 or not of RTP
\* version 2 is passed through; a well-formed RTP v2 packet whose payload type
\* is neither 0x0E nor 0x20 yields d[header_len : len-pad] when that window
\* has 188 bytes or more, and the datagram itself otherwise.
C15_RtpPayloadExtraction ==
  out # NoOut =>
    /\ (pkt.len < 188 \/ Byte0(pkt) = 71 \/ pkt.V # 2) => out = Whole(pkt)
    /\ (pkt.len >= 188 /\ Byte0(pkt) # 71 /\ pkt.V = 2 /\ WellFormed(pkt)
          /\ pkt.PT \notin {14, 32}) =>
         out = IF pkt.len - Pad(pkt) - HeaderLen(pkt) >= 188
               THEN Slice(HeaderLen(pkt), pkt.len - Pad(pkt))
               ELSE Whole(pkt)

\* C15 witness: a packet with CSRCs, an extension and padding was stripped of
\* all three.
C15_Witness ==
  /\ out # NoOut /\ out # Whole(pkt)
  /\ pkt.CC > 0 /\ pkt.X = 1 /\ pkt.ext # <<0, 0>> /\ pkt.P = 1 /\ pkt.last > 0
  /\ pkt.PT \notin {14, 32}

\* a step that sends (or tries to send, and panics) on some client queue
SendsToQueue ==
  \/ \E q \in Clis : hist'[q] # hist[q]
  \/ crash = "none" /\ crash' = "send on closed channel"
\* the steps that are one critical section of the lock Mu of hub h
UnderMu(h) ==
  \/ RunAdd(h) \/ RunRemove(h) \/ RunClose(h) \/ ExternalClose(h)
  \/ BroadcastBegin(h) \/ BroadcastDrop(h)
  \/ \E g \in HubIds : TransferClientsTo(h, g) \/ TransferClientsTo(g, h)

\* C16: no step taken while holding the lock Mu of a hub sends to a client
\* queue.
C16_NoSendUnderMu ==
  [][\A h \in HubIds : UnderMu(h) => ~SendsToQueue]_vars

\* C17: a call of UpdateInterfaces changes no field of the hub but its sockets
\* and nothing of any client; it fails exactly when no socket binds and then
\* leaves the sockets as they were; when it succeeds the hub's sockets are
\* exactly the newly bound ones, open, each with a receive loop of its own,
\* and every socket the hub had before is closed.
C17_UpdateInterfacesFrame ==
  [][\A h \in HubIds, B \in SUBSET (1..MaxAddrs) : UpdateInterfaces(h, B) =>
       /\ hub' = [hub EXCEPT ![h].UdpConns = hub'[h].UdpConns]
       /\ <<cli, ch, hist>>' = <<cli, ch, hist>>
       /\ upd'.ok = "ok" <=> B # {}
       /\ upd'.ok = "err" => (socks' = socks /\ hub' = hub)
       /\ upd'.ok = "ok" =>
            /\ ConnsOf(h)' \cap Bound = {}
            /\ Cardinality(ConnsOf(h)') = Cardinality(B)
            /\ hub'[h].UdpConns = Cardinality(B)
            /\ \A s \in ConnsOf(h)' : socks'[s].open /\ socks'[s].loop = "read"
            /\ \A s \in ConnsOf(h) : ~socks'[s].open
            /\ \A s \in Bound \ ConnsOf(h) : socks'[s] = socks[s]]_vars

\* C17 witness: a hub that had received frames and holds a client was updated
\* with success, and the receive loop of a socket it had before has returned.
C17_Witness ==
  /\ upd.ok = "ok"
  /\ hub[1].PacketCount > 0 /\ DOMAIN hub[1].Clients # {}
  /\ \E s \in Bound : socks[s].hub = 1 /\ ~socks[s].open /\ socks[s].loop = "done"
  /\ ConnsOf(1) # {}

IsSuffix(s, t) == Len(s) <= Len(t) /\ SubSeq(t, Len(t) - Len(s) + 1, Len(t)) = s

\* C18: when TransferClientsTo(newHub) returns, every client of this hub's
\* table is in newHub's table with its queue, this hub's table is empty,
\* newHub's ring ends with this hub's ring frames in their order, and no
\* queue was closed.
C18_TransferMovesClients ==
  [][\A h, g \in HubIds : (TransferClientsTo(h, g) /\ crash' = "none") =>
       /\ \A id \in DOMAIN hub[h].Clients :
            id \in DOMAIN hub'[g].Clients /\ hub'[g].Clients[id] = hub[h].Clients[id]
       /\ DOMAIN hub'[h].Clients = {}
       /\ IsSuffix(GetAll(hub[h].CacheBuffer), GetAll(hub'[g].CacheBuffer))
       /\ \A q \in Clis : ch'[q].closed = ch[q].closed]_vars

\* C18 witness: a transfer has moved a client of a hub whose ring held two
\* frames to a hub that had frames and a client of its own.
C18_Witness ==
  \E h, g \in HubIds, c, d \in Clis :
    /\ h # g /\ c # d /\ nTransfers > 0 /\ crash = "none"
    /\ cli[c].hub = h /\ cli[d].hub = g
    /\ {c, d} \subseteq Range(hub[g].Clients)
    /\ DOMAIN hub[h].Clients = {}
    /\ hub[h].CacheBuffer.count = 2 /\ hub[g].PacketCount > 0

\* C19: a hub whose state is Playing has broadcast at least one frame since it
\* entered Playing, the state right after construction included.
C19_PlayingImpliesDelivered ==
  \A h \in HubIds : (h <= nHubs /\ hub[h].state = StatePlaying) => hub[h].PacketCount > 0

\* C20: the reaper of one hub never removes or closes another hub: the
\* on-empty step of hub h's control loop leaves the registry entry of any
\* other hub in place, and the close that follows it changes no other hub.
C20_ReaperSparesOtherHubs ==
  [][\A h \in HubIds :
       /\ RunOnEmpty(h) => (Hubs' = Hubs \/ Hubs = h)
       /\ RunRemoveHubClose(h) => \A g \in HubIds \ {h} : hub'[g] = hub[g]]_vars

\* the request c is being served and its queue has been moved into the
\* clients table of g, a hub other than the one its ServeHTTP runs on
Transferred(c, g) ==
  /\ cli[c].pc = "serving"
  /\ g <= nHubs /\ g # cli[c].hub
  /\ c \in Range(hub[g].Clients)

\* C21: clients survive a transfer: the serve loop of a transferred client
\* can return only on its own cancellation, on its queue being closed or on
\* the new hub being closed; the close of the source hub gives it no way out.
C21_TransferredClientKeepsServing ==
  \A c \in Clis, g \in HubIds :
    (Transferred(c, g) /\ ENABLED ServeHubClosed(c)) => (ch[c].closed \/ IsClosed(g))

\* the requests c and d attached to the same hub with the same connection id
SameConnID(c, d) ==
  /\ c # d /\ cli[c].att /\ cli[d].att
  /\ cli[c].hub = cli[d].hub /\ cli[c].connID = cli[d].connID

\* C22: clients with equal connection ids do not disturb each other: when c
\* has returned and d, attached with the same id, is still in the table, a
\* detach handled by the control loop leaves d's queue open and its entry in
\* place, and does not send the hub to its close.
C22_EqualConnIDsIndependent ==
  [][\A h \in HubIds, c, d \in Clis :
       ( /\ SameConnID(c, d) /\ cli[c].hub = h
         /\ cli[c].pc = "done" /\ cli[d].pc \in {"attached", "serving"}
         /\ d \in Range(hub[h].Clients)
         /\ RunRemove(h) )
       => /\ ch'[d].closed = ch[d].closed
          /\ d \in Range(hub'[h].Clients)
          /\ run'[h].pc # "close"]_vars

\* C23: a closed hub owns no open socket: once Close has completed the hub's
\* socket list is empty and every socket the hub ever bound is closed, also
\* after a call of UpdateInterfaces on the closed hub.
C23_ClosedHubOwnsNoSocket ==
  \A h \in HubIds : (h <= nHubs /\ IsClosed(h)) =>
    /\ hub[h].UdpConns = 0
    /\ ConnsOf(h) = {}
    /\ \A s \in Bound : socks[s].hub = h => ~socks[s].open

====
